---- MODULE Spec2Model ----
(***************************************************************************)
(* A model of the API gateway of nguyenvanducb/gateway.                    *)
(*                                                                         *)
(* The repository holds three builds of the same gateway:                  *)
(*   "main_tcp"  src/main.go lines 1-96     raw TCP tunnel to :8003        *)
(*   "part_tcp"  src/unnamed/part_000       raw TCP tunnel to :9999        *)
(*   "main_cors" src/main.go lines 98-263   CORS, health, /ws and /ws2     *)
(*                                          proxied by httputil            *)
(* Strings the code inspects (paths, header values) are sequences of       *)
(* one-character strings, so that HasPrefix, TrimPrefix, Contains and      *)
(* ToLower are computed as the Go functions compute them.                  *)
(***************************************************************************)
EXTENDS Integers, Sequences, FiniteSets, TLC

(* ------------------------------------------------------------------ *)
(* Bounds                                                              *)
(* ------------------------------------------------------------------ *)

\* Bytes each peer of a tunnel may send after the handshake.
MaxBytes == 2

(* ------------------------------------------------------------------ *)
(* strings                                                             *)
(* ------------------------------------------------------------------ *)

\* strings.HasPrefix(s, p)
HasPrefix(s, p) ==
    /\ Len(p) <= Len(s)
    /\ SubSeq(s, 1, Len(p)) = p

\* strings.TrimPrefix(s, p): s without ONE leading p, s itself when p is no prefix
TrimPrefix(s, p) ==
    IF HasPrefix(s, p) THEN SubSeq(s, Len(p) + 1, Len(s)) ELSE s

\* strings.Contains(s, sub)
Contains(s, sub) ==
    \E i \in 1..(Len(s) + 1) :
        /\ i + Len(sub) - 1 <= Len(s)
        /\ SubSeq(s, i, i + Len(sub) - 1) = sub

UpperLetters ==
    <<"A", "B", "C", "D", "E", "F", "G", "H", "I", "J", "K", "L", "M",
      "N", "O", "P", "Q", "R", "S", "T", "U", "V", "W", "X", "Y", "Z">>

LowerLetters ==
    <<"a", "b", "c", "d", "e", "f", "g", "h", "i", "j", "k", "l", "m",
      "n", "o", "p", "q", "r", "s", "t", "u", "v", "w", "x", "y", "z">>

LowerChar(c) ==
    IF \E i \in 1..Len(UpperLetters) : UpperLetters[i] = c
    THEN LowerLetters[CHOOSE i \in 1..Len(UpperLetters) : UpperLetters[i] = c]
    ELSE c

\* strings.ToLower(s)
ToLower(s) == [i \in 1..Len(s) |-> LowerChar(s[i])]

(* ------------------------------------------------------------------ *)
(* string literals of the source                                       *)
(* ------------------------------------------------------------------ *)

PatStock     == <<"/", "s", "t", "o", "c", "k", "/">>
PatServiceB  == <<"/", "s", "e", "r", "v", "i", "c", "e", "-", "b", "/">>
PatWs        == <<"/", "w", "s">>
PatWsSlash   == <<"/", "w", "s", "/">>
PatWs2       == <<"/", "w", "s", "2">>
PatWs2Slash  == <<"/", "w", "s", "2", "/">>
PatHealth    == <<"/", "h", "e", "a", "l", "t", "h">>

PrefixStock    == <<"/", "s", "t", "o", "c", "k">>
PrefixServiceB == <<"/", "s", "e", "r", "v", "i", "c", "e", "-", "b">>

StrUpgrade   == <<"u", "p", "g", "r", "a", "d", "e">>
StrWebsocket == <<"w", "e", "b", "s", "o", "c", "k", "e", "t">>

Variants == {"main_tcp", "part_tcp", "main_cors"}

\* the address proxyWebSocket dials
TunnelBackend(v) ==
    IF v = "main_tcp" THEN "localhost:8003" ELSE "localhost:9999"

(* ------------------------------------------------------------------ *)
(* the route table: what main() registers on the default ServeMux      *)
(* ------------------------------------------------------------------ *)

Route(pat, kind, target) == [pattern |-> pat, kind |-> kind, target |-> target]

ProxyRoutes ==
    { Route(PatStock,    "proxy", "localhost:8001"),
      Route(PatServiceB, "proxy", "localhost:8002") }

Routes(v) ==
    CASE v = "main_tcp" ->
            ProxyRoutes \cup { Route(PatWsSlash, "ws", "localhost:8003") }
      [] v = "part_tcp" ->
            ProxyRoutes \cup { Route(PatWs,      "ws", "localhost:9999"),
                               Route(PatWsSlash, "ws", "localhost:9999") }
      [] v = "main_cors" ->
            ProxyRoutes \cup { Route(PatHealth,   "health", "none"),
                               Route(PatWs,       "ws", "localhost:9999"),
                               Route(PatWsSlash,  "ws", "localhost:9999"),
                               Route(PatWs2,      "ws", "localhost:9998"),
                               Route(PatWs2Slash, "ws", "localhost:9998") }

(* ------------------------------------------------------------------ *)
(* net/http's ServeMux, which http.HandleFunc and                      *)
(* http.ListenAndServe(addr, nil) put in front of every handler        *)
(* ------------------------------------------------------------------ *)

\* the segments of a path: the pieces between its slashes
RECURSIVE SplitFrom(_, _, _)
SplitFrom(p, i, cur) ==
    IF i > Len(p) THEN <<cur>>
    ELSE IF p[i] = "/" THEN <<cur>> \o SplitFrom(p, i + 1, <<>>)
    ELSE SplitFrom(p, i + 1, Append(cur, p[i]))

Segments(p) == SplitFrom(p, 1, <<>>)

\* path.Clean on a rooted path: empty and "." segments go, ".." takes the
\* segment before it (and nothing at the root)
RECURSIVE CleanSegs(_, _, _)
CleanSegs(segs, i, acc) ==
    IF i > Len(segs) THEN acc
    ELSE IF segs[i] = <<>> \/ segs[i] = <<".">> THEN CleanSegs(segs, i + 1, acc)
    ELSE IF segs[i] = <<".", ".">>
         THEN CleanSegs(segs, i + 1,
                        IF acc = <<>> THEN acc ELSE SubSeq(acc, 1, Len(acc) - 1))
    ELSE CleanSegs(segs, i + 1, Append(acc, segs[i]))

RECURSIVE JoinSegs(_, _)
JoinSegs(segs, i) ==
    IF i > Len(segs) THEN <<>>
    ELSE <<"/">> \o segs[i] \o JoinSegs(segs, i + 1)

PathClean(p) ==
    LET segs == CleanSegs(Segments(p), 1, <<>>)
    IN  IF segs = <<>> THEN <<"/">> ELSE JoinSegs(segs, 1)

\* net/http cleanPath: the canonical path, with the trailing slash kept
cleanPath(p) ==
    IF p = <<>> THEN <<"/">>
    ELSE LET q  == IF p[1] # "/" THEN <<"/">> \o p ELSE p
             np == PathClean(q)
         IN  IF q[Len(q)] = "/" /\ np # <<"/">> THEN Append(np, "/") ELSE np

\* mutation: every pattern is matched as a prefix, trailing slash or not
PatternMatchesAsPrefix(pat, path) == HasPrefix(path, pat)

\* a pattern ending in "/" names a subtree, any other pattern one path
PatternMatches(pat, path) ==
    IF pat[Len(pat)] = "/" THEN HasPrefix(path, pat) ELSE path = pat

\* ServeMux.match: the longest pattern that matches wins
Match(v, path) ==
    LET ms == { r \in Routes(v) : PatternMatches(r.pattern, path) }
    IN  IF ms = {} THEN [kind |-> "notfound", target |-> "none", location |-> <<>>]
        ELSE LET r == CHOOSE x \in ms :
                          \A y \in ms : Len(y.pattern) <= Len(x.pattern)
             IN  [kind |-> r.kind, target |-> r.target, location |-> <<>>]

\* ServeMux.shouldRedirect: /tree is not registered and /tree/ is
ShouldRedirect(v, path) ==
    /\ \A r \in Routes(v) : r.pattern # path
    /\ \E r \in Routes(v) : r.pattern = Append(path, "/")

Redirect(loc) == [kind |-> "redirect", target |-> "none", location |-> loc]

\* ServeMux.Handler for a request that is not CONNECT
MuxHandler(v, path) ==
    LET cp == cleanPath(path)
    IN  IF ShouldRedirect(v, cp) THEN Redirect(Append(cp, "/"))
        ELSE IF cp # path THEN Redirect(cp)
        ELSE Match(v, path)

(* ------------------------------------------------------------------ *)
(* requests                                                            *)
(* ------------------------------------------------------------------ *)

Methods == {"GET", "POST", "OPTIONS"}

Paths ==
    { <<"/">>,
      <<"/", "s", "t", "o", "c", "k">>,
      <<"/", "s", "t", "o", "c", "k", "/">>,
      <<"/", "s", "t", "o", "c", "k", "/", "a", "/", "b">>,
      <<"/", "s", "t", "o", "c", "k", "/", "s", "t", "o", "c", "k", "/", "x">>,
      <<"/", "s", "t", "o", "c", "k", "x", "/", "a">>,
      <<"/", "s", "e", "r", "v", "i", "c", "e", "-", "b", "/", "a">>,
      <<"/", "s", "e", "r", "v", "i", "c", "e", "-", "b", "/", "s", "t", "o", "c", "k", "/", "a">>,
      <<"/", "w", "s">>,
      <<"/", "w", "s", "/">>,
      <<"/", "w", "s", "/", "a">>,
      <<"/", "w", "s", "2">>,
      <<"/", "w", "s", "2", "/", "a">>,
      <<"/", "w", "s", "x">>,
      <<"/", "h", "e", "a", "l", "t", "h">>,
      <<"/", "h", "e", "a", "l", "t", "h", "/">>,
      <<"/", "u", "n", "k", "n", "o", "w", "n">>,
      <<"/", "a", "/", "s", "t", "o", "c", "k", "/", "x">>,
      <<"/", "s", "t", "o", "c", "k", "/", "/", "a">>,
      <<"/", "x", "/", ".", ".", "/", "s", "t", "o", "c", "k", "/", "a">>,
      <<"/", "/", "u", "n", "k", "n", "o", "w", "n">> }

Queries == { <<>>, <<"i", "d", "=", "5">> }

\* values of the Connection header; <<>> is the header being absent
\* (Header.Get returns "")
ConnKeepAliveUpgrade ==
    <<"k", "e", "e", "p", "-", "a", "l", "i", "v", "e", ",", " ",
      "U", "p", "g", "r", "a", "d", "e">>
ConnUpgrade   == <<"u", "p", "g", "r", "a", "d", "e">>
ConnUpgrad    == <<"u", "p", "g", "r", "a", "d">>
ConnectionValues == { <<>>, ConnKeepAliveUpgrade, ConnUpgrade, ConnUpgrad }

\* values of the Upgrade header
UpgWebSocketMixed == <<"W", "e", "b", "S", "o", "c", "k", "e", "t">>
UpgWebsocket      == <<"w", "e", "b", "s", "o", "c", "k", "e", "t">>
UpgWebsocket2     == <<"w", "e", "b", "s", "o", "c", "k", "e", "t", "2">>
UpgradeValues == { <<>>, UpgWebSocketMixed, UpgWebsocket, UpgWebsocket2 }

Requests ==
    [ method : Methods, path : Paths, query : Queries,
      connection : ConnectionValues, upgrade : UpgradeValues ]

NoRequest ==
    [ method |-> "none", path |-> <<>>, query |-> <<>>,
      connection |-> <<>>, upgrade |-> <<>> ]

(* ------------------------------------------------------------------ *)
(* responses                                                           *)
(* ------------------------------------------------------------------ *)

StatusOK                  == 200
StatusMovedPermanently    == 301
StatusBadRequest          == 400
StatusNotFound            == 404
StatusInternalServerError == 500
StatusBadGateway          == 502

\* what a backend that was reached may answer
BackendStatuses == {200, 404}

NoResponse == [status |-> 0, by |-> "none"]
\* a response the gateway writes itself (http.Error, WriteHeader, the mux)
Own(status) == [status |-> status, by |-> "gateway"]
\* a backend's response, copied back by httputil.ReverseProxy
Relayed(status) == [status |-> status, by |-> "backend"]

NoRoute == [kind |-> "none", target |-> "none", location |-> <<>>]
NoForward == [path |-> <<>>, query |-> <<>>, method |-> "none"]

(* ------------------------------------------------------------------ *)
(* the handlers' pure parts                                            *)
(* ------------------------------------------------------------------ *)

\* httputil's singleJoiningSlash(a, b), which the default director applies
\* to the target's path and the request's path
singleJoiningSlash(a, b) ==
    LET aslash == a # <<>> /\ a[Len(a)] = "/"
        bslash == b # <<>> /\ b[1] = "/"
    IN  IF aslash /\ bslash THEN a \o SubSeq(b, 2, Len(b))
        ELSE IF ~aslash /\ ~bslash THEN a \o <<"/">> \o b
        ELSE a \o b

\* mutation: the prefix is cut with its trailing slash
DirectorCutsSlash(path) ==
    LET p == singleJoiningSlash(<<>>, path)
    IN  IF HasPrefix(p, PatStock) THEN TrimPrefix(p, PatStock)
        ELSE IF HasPrefix(p, PatServiceB) THEN TrimPrefix(p, PatServiceB)
        ELSE p

\* reverseProxy's Director: the default director (the targets have an empty
\* path), then the prefix is taken off
Director(path) ==
    LET p == singleJoiningSlash(<<>>, path)
    IN  IF HasPrefix(p, PatStock) THEN TrimPrefix(p, PrefixStock)
        ELSE IF HasPrefix(p, PatServiceB) THEN TrimPrefix(p, PrefixServiceB)
        ELSE p

\* mutation: only the /ws2 prefix is rewritten, a sub-path stays
WsDirectorKeepsSubPath(path) ==
    LET p == singleJoiningSlash(<<>>, path)
    IN  IF HasPrefix(p, PatWs2) THEN PatWs
        ELSE p

\* websocketProxy's Director
WsDirector(path) ==
    LET p == singleJoiningSlash(<<>>, path)
    IN  IF HasPrefix(p, PatWs2) THEN PatWs
        ELSE IF HasPrefix(p, PatWs) THEN PatWs
        ELSE p

\* mutation: either header is enough (|| for &&)
IsUpgradeRequestEither(r) ==
    \/ Contains(ToLower(r.connection), StrUpgrade)
    \/ ToLower(r.upgrade) = StrWebsocket

\* mutation: the Upgrade header is compared without strings.ToLower
IsUpgradeRequestCaseSensitive(r) ==
    /\ Contains(ToLower(r.connection), StrUpgrade)
    /\ r.upgrade = StrWebsocket

\* the upgrade check of the /ws handlers
IsUpgradeRequest(r) ==
    /\ Contains(ToLower(r.connection), StrUpgrade)
    /\ ToLower(r.upgrade) = StrWebsocket

\* corsMiddleware answers a preflight itself
IsPreflight(v, r) == v = "main_cors" /\ r.method = "OPTIONS"

(* ------------------------------------------------------------------ *)
(* state                                                               *)
(* ------------------------------------------------------------------ *)

VARIABLES
    variant,      \* which build runs
    pc,           \* per session: where its handler goroutine is
    req,          \* the request the server parsed
    routed,       \* what the mux chose for it
    resp,         \* the HTTP response written on the client connection
    backend,      \* the backend address a connection attempt went to
    fwd,          \* the request written to the backend
    dials,        \* backend connection attempts made
    backendConn,  \* the tunnel's backend socket: none, open, closed
    clientConn,   \* the client socket: http (the server's), hijacked, closed
    clientPeer,   \* the client's end: open, closed
    backendPeer,  \* the backend's end: none, open, closed
    clientSent,   \* bytes the client sent after its request
    clientIn,     \* of those, the bytes waiting in the client socket
    hijackBuf,    \* of those, the bytes in the server's bufio.Reader at Hijack
    backendRecv,  \* bytes delivered to the backend after the replay
    backendSent,  \* bytes the backend sent
    backendIn,    \* of those, the bytes waiting in the backend socket
    clientRecv,   \* bytes delivered to the client
    c2b,          \* the goroutine io.Copy(backendConn, clientConn)
    c2bBuf,       \* the bytes it has read and not yet written
    b2c,          \* the handler's io.Copy(clientConn, backendConn)
    b2cBuf

vars ==
    << variant, pc, req, routed, resp, backend, fwd, dials, backendConn,
       clientConn, clientPeer, backendPeer, clientSent, clientIn, hijackBuf,
       backendRecv, backendSent, backendIn, clientRecv, c2b, c2bBuf, b2c, b2cBuf >>

connVars == << backendConn, clientConn >>
peerVars == << clientPeer, backendPeer >>
streamVars ==
    << clientSent, clientIn, hijackBuf, backendRecv, backendSent, backendIn,
       clientRecv >>
copyVars == << c2b, c2bBuf, b2c, b2cBuf >>
tunnelVars == << connVars, peerVars, streamVars, copyVars >>

Sessions == DOMAIN pc

\* the k-th byte a peer sends: every byte of a session is distinct
ClientByte(k)  == [from |-> "client", n |-> k]
BackendByte(k) == [from |-> "backend", n |-> k]

InitOver(S) ==
    /\ variant \in Variants
    /\ pc = [s \in S |-> "idle"]
    /\ req = [s \in S |-> NoRequest]
    /\ routed = [s \in S |-> NoRoute]
    /\ resp = [s \in S |-> NoResponse]
    /\ backend = [s \in S |-> "none"]
    /\ fwd = [s \in S |-> NoForward]
    /\ dials = [s \in S |-> 0]
    /\ backendConn = [s \in S |-> "none"]
    /\ clientConn = [s \in S |-> "http"]
    /\ clientPeer = [s \in S |-> "open"]
    /\ backendPeer = [s \in S |-> "none"]
    /\ clientSent = [s \in S |-> <<>>]
    /\ clientIn = [s \in S |-> <<>>]
    /\ hijackBuf = [s \in S |-> <<>>]
    /\ backendRecv = [s \in S |-> <<>>]
    /\ backendSent = [s \in S |-> <<>>]
    /\ backendIn = [s \in S |-> <<>>]
    /\ clientRecv = [s \in S |-> <<>>]
    /\ c2b = [s \in S |-> "none"]
    /\ c2bBuf = [s \in S |-> <<>>]
    /\ b2c = [s \in S |-> "none"]
    /\ b2cBuf = [s \in S |-> <<>>]

SingleSession == {1}

Init == InitOver(SingleSession)

(* ------------------------------------------------------------------ *)
(* the server: a request arrives and the mux picks its handler         *)
(* ------------------------------------------------------------------ *)

\* the handler goroutine ends with this response
Finish(s, r) ==
    /\ resp' = [resp EXCEPT ![s] = r]
    /\ pc' = [pc EXCEPT ![s] = "done"]

\* the server has read a request on a new connection
Arrive(s) ==
    /\ pc[s] = "idle"
    /\ \E r \in Requests : req' = [req EXCEPT ![s] = r]
    /\ pc' = [pc EXCEPT ![s] = "mux"]
    /\ UNCHANGED << variant, routed, resp, backend, fwd, dials, tunnelVars >>

\* DefaultServeMux.ServeHTTP: redirect, Not Found, or the registered handler
Dispatch(s) ==
    /\ pc[s] = "mux"
    /\ LET h == MuxHandler(variant, req[s].path)
       IN  /\ routed' = [routed EXCEPT ![s] = h]
           /\ CASE h.kind = "redirect" -> Finish(s, Own(StatusMovedPermanently))
                [] h.kind = "notfound" -> Finish(s, Own(StatusNotFound))
                [] OTHER -> /\ pc' = [pc EXCEPT ![s] = h.kind]
                            /\ UNCHANGED resp
    /\ UNCHANGED << variant, req, backend, fwd, dials, tunnelVars >>

\* corsMiddleware(healthCheck): 200 for a preflight and for anything else
HealthCheck(s) ==
    /\ pc[s] = "health"
    /\ Finish(s, Own(StatusOK))
    /\ UNCHANGED << variant, req, routed, backend, fwd, dials, tunnelVars >>

\* proxy.ServeHTTP up to the round trip: the director has rewritten the
\* outgoing request and the transport connects to the target
SendToBackend(s, path) ==
    /\ backend' = [backend EXCEPT ![s] = routed[s].target]
    /\ fwd' = [fwd EXCEPT ![s] =
                 [path |-> path, query |-> req[s].query, method |-> req[s].method]]
    /\ dials' = [dials EXCEPT ![s] = @ + 1]
    /\ pc' = [pc EXCEPT ![s] = "roundtrip"]
    /\ UNCHANGED resp

\* reverseProxy(target), behind corsMiddleware in the CORS build
ReverseProxy(s) ==
    /\ pc[s] = "proxy"
    /\ IF IsPreflight(variant, req[s])
       THEN /\ Finish(s, Own(StatusOK))
            /\ UNCHANGED << backend, fwd, dials >>
       ELSE SendToBackend(s, Director(req[s].path))
    /\ UNCHANGED << variant, req, routed, tunnelVars >>

\* the round trip ends: the backend's response is copied back, or the
\* ErrorHandler (the default one, or the build's own) answers 502
RoundTrip(s) ==
    /\ pc[s] = "roundtrip"
    /\ \/ \E st \in BackendStatuses : Finish(s, Relayed(st))
       \/ Finish(s, Own(StatusBadGateway))
    /\ UNCHANGED << variant, req, routed, backend, fwd, dials, tunnelVars >>

\* the /ws handler: the upgrade check, then proxyWebSocket (the TCP builds)
\* or websocketProxy (the CORS build)
WsHandler(s) ==
    /\ pc[s] = "ws"
    /\ IF IsUpgradeRequest(req[s])
       THEN IF variant = "main_cors"
            THEN SendToBackend(s, WsDirector(req[s].path))
            ELSE /\ pc' = [pc EXCEPT ![s] = "dial"]
                 /\ UNCHANGED << resp, backend, fwd, dials >>
       ELSE /\ Finish(s, Own(StatusBadRequest))
            /\ UNCHANGED << backend, fwd, dials >>
    /\ UNCHANGED << variant, req, routed, tunnelVars >>

(* ------------------------------------------------------------------ *)
(* proxyWebSocket                                                      *)
(* ------------------------------------------------------------------ *)

\* mutation: clientConn.Close() is not deferred
DeferredCloseForgetsClient(s) ==
    /\ backendConn' =
          [backendConn EXCEPT ![s] = IF @ = "open" THEN "closed" ELSE @]
    /\ UNCHANGED clientConn

\* the deferred backendConn.Close() and clientConn.Close(): each runs when
\* the handler returns after the statement that deferred it
DeferredClose(s) ==
    /\ backendConn' =
          [backendConn EXCEPT ![s] = IF @ = "open" THEN "closed" ELSE @]
    /\ clientConn' =
          [clientConn EXCEPT ![s] = IF @ = "hijacked" THEN "closed" ELSE @]

\* mutation: the dial error is not checked, the handler goes on to Hijack
DialErrorIgnored(s) ==
    /\ pc[s] = "dial"
    /\ dials' = [dials EXCEPT ![s] = @ + 1]
    /\ backend' = [backend EXCEPT ![s] = TunnelBackend(variant)]
    /\ \/ /\ backendConn' = [backendConn EXCEPT ![s] = "open"]
          /\ backendPeer' = [backendPeer EXCEPT ![s] = "open"]
       \/ UNCHANGED << backendConn, backendPeer >>
    /\ pc' = [pc EXCEPT ![s] = "hijack"]
    /\ UNCHANGED << variant, req, routed, resp, fwd, clientConn, clientPeer,
                    streamVars, copyVars >>

\* mutation: a failed dial is tried again
DialRetried(s) ==
    /\ pc[s] = "dial"
    /\ dials' = [dials EXCEPT ![s] = @ + 1]
    /\ backend' = [backend EXCEPT ![s] = TunnelBackend(variant)]
    /\ \/ /\ backendConn' = [backendConn EXCEPT ![s] = "open"]
          /\ backendPeer' = [backendPeer EXCEPT ![s] = "open"]
          /\ pc' = [pc EXCEPT ![s] = "hijack"]
          /\ UNCHANGED resp
       \/ /\ dials[s] >= 1
          /\ Finish(s, Own(StatusBadGateway))
          /\ UNCHANGED << backendConn, backendPeer >>
       \/ /\ dials[s] < 1
          /\ UNCHANGED << pc, resp, backendConn, backendPeer >>
    /\ UNCHANGED << variant, req, routed, fwd, clientConn, clientPeer,
                    streamVars, copyVars >>

\* mutation: the dial waits while another session holds a backend connection
DialWaitsForOthers(s) ==
    /\ pc[s] = "dial"
    /\ \A t \in Sessions \ {s} : backendConn[t] # "open"
    /\ dials' = [dials EXCEPT ![s] = @ + 1]
    /\ backend' = [backend EXCEPT ![s] = TunnelBackend(variant)]
    /\ \/ /\ backendConn' = [backendConn EXCEPT ![s] = "open"]
          /\ backendPeer' = [backendPeer EXCEPT ![s] = "open"]
          /\ pc' = [pc EXCEPT ![s] = "hijack"]
          /\ UNCHANGED resp
       \/ /\ Finish(s, Own(StatusBadGateway))
          /\ UNCHANGED << backendConn, backendPeer >>
    /\ UNCHANGED << variant, req, routed, fwd, clientConn, clientPeer,
                    streamVars, copyVars >>

\* net.Dial("tcp", ...): one attempt; 502 and return when it fails
Dial(s) ==
    /\ pc[s] = "dial"
    /\ dials' = [dials EXCEPT ![s] = @ + 1]
    /\ backend' = [backend EXCEPT ![s] = TunnelBackend(variant)]
    /\ \/ /\ backendConn' = [backendConn EXCEPT ![s] = "open"]
          /\ backendPeer' = [backendPeer EXCEPT ![s] = "open"]
          /\ pc' = [pc EXCEPT ![s] = "hijack"]
          /\ UNCHANGED resp
       \/ /\ Finish(s, Own(StatusBadGateway))
          /\ UNCHANGED << backendConn, backendPeer >>
    /\ UNCHANGED << variant, req, routed, fwd, clientConn, clientPeer,
                    streamVars, copyVars >>

\* mutation: backendConn.Close() is deferred only after the Hijack, so a
\* failed Hijack returns with the backend connection open
HijackFailureLeaksBackend(s) ==
    /\ pc[s] = "hijack"
    /\ \/ \E n \in 0..Len(clientIn[s]) :
            /\ clientConn' = [clientConn EXCEPT ![s] = "hijacked"]
            /\ hijackBuf' = [hijackBuf EXCEPT ![s] = SubSeq(clientIn[s], 1, n)]
            /\ clientIn' =
                 [clientIn EXCEPT ![s] = SubSeq(@, n + 1, Len(@))]
            /\ pc' = [pc EXCEPT ![s] = "replay"]
            /\ UNCHANGED << resp, backendConn >>
       \/ /\ Finish(s, Own(StatusInternalServerError))
          /\ UNCHANGED << connVars, hijackBuf, clientIn >>
    /\ UNCHANGED << variant, req, routed, backend, fwd, dials, peerVars,
                    clientSent, backendRecv, backendSent, backendIn,
                    clientRecv, copyVars >>

\* w.(http.Hijacker) and Hijack(): the socket is handed over and the
\* bufio.ReadWriter that comes with it, holding what the server had already
\* read from the socket, is dropped (the blank identifier)
Hijack(s) ==
    /\ pc[s] = "hijack"
    /\ \/ \E n \in 0..Len(clientIn[s]) :
            /\ clientConn' = [clientConn EXCEPT ![s] = "hijacked"]
            /\ hijackBuf' = [hijackBuf EXCEPT ![s] = SubSeq(clientIn[s], 1, n)]
            /\ clientIn' =
                 [clientIn EXCEPT ![s] = SubSeq(@, n + 1, Len(@))]
            /\ pc' = [pc EXCEPT ![s] = "replay"]
            /\ UNCHANGED << resp, backendConn >>
       \/ \* not a Hijacker, or Hijack returns an error
          /\ Finish(s, Own(StatusInternalServerError))
          /\ DeferredClose(s)
          /\ UNCHANGED << hijackBuf, clientIn >>
    /\ UNCHANGED << variant, req, routed, backend, fwd, dials, peerVars,
                    clientSent, backendRecv, backendSent, backendIn,
                    clientRecv, copyVars >>

\* mutation: the goroutine is started before r.Write, so it runs whether
\* the write fails or not
ReplayAfterGoroutine(s) ==
    /\ pc[s] = "replay"
    /\ c2b' = [c2b EXCEPT ![s] = "read"]
    /\ \/ /\ fwd' = [fwd EXCEPT ![s] =
                       [path |-> req[s].path, query |-> req[s].query,
                        method |-> req[s].method]]
          /\ b2c' = [b2c EXCEPT ![s] = "read"]
          /\ pc' = [pc EXCEPT ![s] = "relay"]
          /\ UNCHANGED << connVars >>
       \/ /\ backendPeer[s] = "closed"
          /\ DeferredClose(s)
          /\ pc' = [pc EXCEPT ![s] = "done"]
          /\ UNCHANGED << fwd, b2c >>
    /\ UNCHANGED << variant, req, routed, resp, backend, dials, peerVars,
                    streamVars, c2bBuf, b2cBuf >>

\* r.Write(backendConn), then the two copies start; a failed write returns
Replay(s) ==
    /\ pc[s] = "replay"
    /\ \/ /\ fwd' = [fwd EXCEPT ![s] =
                       [path |-> req[s].path, query |-> req[s].query,
                        method |-> req[s].method]]
          /\ c2b' = [c2b EXCEPT ![s] = "read"]
          /\ b2c' = [b2c EXCEPT ![s] = "read"]
          /\ pc' = [pc EXCEPT ![s] = "relay"]
          /\ UNCHANGED << connVars >>
       \/ /\ backendPeer[s] = "closed"
          /\ DeferredClose(s)
          /\ pc' = [pc EXCEPT ![s] = "done"]
          /\ UNCHANGED << fwd, c2b, b2c >>
    /\ UNCHANGED << variant, req, routed, resp, backend, dials, peerVars,
                    streamVars, c2bBuf, b2cBuf >>

\* mutation: the handler returns without the deferred closes
TunnelReturnLeaks(s) ==
    /\ UNCHANGED connVars
    /\ b2c' = [b2c EXCEPT ![s] = "done"]
    /\ b2cBuf' = [b2cBuf EXCEPT ![s] = <<>>]
    /\ pc' = [pc EXCEPT ![s] = "done"]

\* the handler's io.Copy has returned: the deferred closes run
TunnelReturn(s) ==
    /\ DeferredClose(s)
    /\ b2c' = [b2c EXCEPT ![s] = "done"]
    /\ b2cBuf' = [b2cBuf EXCEPT ![s] = <<>>]
    /\ pc' = [pc EXCEPT ![s] = "done"]

\* mutation: a Read on the socket the handler has closed keeps blocking
C2BReadBlocksOnClosed(s) ==
    /\ c2b[s] = "read"
    /\ clientConn[s] # "closed"
    /\ IF clientIn[s] # <<>>
       THEN /\ c2bBuf' = [c2bBuf EXCEPT ![s] = <<Head(clientIn[s])>>]
            /\ clientIn' = [clientIn EXCEPT ![s] = Tail(@)]
            /\ c2b' = [c2b EXCEPT ![s] = "write"]
       ELSE /\ clientPeer[s] = "closed"
            /\ c2b' = [c2b EXCEPT ![s] = "done"]
            /\ UNCHANGED << clientIn, c2bBuf >>
    /\ UNCHANGED << variant, pc, req, routed, resp, backend, fwd, dials,
                    connVars, peerVars, clientSent, hijackBuf, backendRecv,
                    backendSent, backendIn, clientRecv, b2c, b2cBuf >>

\* io.Copy(backendConn, clientConn), the goroutine: Read on the client socket
C2BRead(s) ==
    /\ c2b[s] = "read"
    /\ IF clientConn[s] = "closed"
       THEN \* use of closed network connection
            /\ c2b' = [c2b EXCEPT ![s] = "done"]
            /\ UNCHANGED << clientIn, c2bBuf >>
       ELSE IF clientIn[s] # <<>>
       THEN /\ c2bBuf' = [c2bBuf EXCEPT ![s] = <<Head(clientIn[s])>>]
            /\ clientIn' = [clientIn EXCEPT ![s] = Tail(@)]
            /\ c2b' = [c2b EXCEPT ![s] = "write"]
       ELSE \* end of stream; with the client still open the Read blocks
            /\ clientPeer[s] = "closed"
            /\ c2b' = [c2b EXCEPT ![s] = "done"]
            /\ UNCHANGED << clientIn, c2bBuf >>
    /\ UNCHANGED << variant, pc, req, routed, resp, backend, fwd, dials,
                    connVars, peerVars, clientSent, hijackBuf, backendRecv,
                    backendSent, backendIn, clientRecv, b2c, b2cBuf >>

\* ... and its Write on the backend socket
C2BWrite(s) ==
    /\ c2b[s] = "write"
    /\ c2bBuf' = [c2bBuf EXCEPT ![s] = <<>>]
    /\ IF backendConn[s] = "open" /\ backendPeer[s] = "open"
       THEN /\ backendRecv' = [backendRecv EXCEPT ![s] = @ \o c2bBuf[s]]
            /\ c2b' = [c2b EXCEPT ![s] = "read"]
       ELSE IF backendConn[s] = "open"
       THEN \* the backend is gone: the kernel takes the bytes, or the
            \* write fails
            /\ \E next \in {"read", "done"} : c2b' = [c2b EXCEPT ![s] = next]
            /\ UNCHANGED backendRecv
       ELSE /\ c2b' = [c2b EXCEPT ![s] = "done"]
            /\ UNCHANGED backendRecv
    /\ UNCHANGED << variant, pc, req, routed, resp, backend, fwd, dials,
                    connVars, peerVars, clientSent, clientIn, hijackBuf,
                    backendSent, backendIn, clientRecv, b2c, b2cBuf >>

\* mutation: the backend socket has a read deadline, an idle Read returns
\* and the handler tears the relay down
B2CReadWithDeadline(s) ==
    /\ pc[s] = "relay"
    /\ b2c[s] = "read"
    /\ IF backendIn[s] # <<>>
       THEN /\ b2cBuf' = [b2cBuf EXCEPT ![s] = <<Head(backendIn[s])>>]
            /\ backendIn' = [backendIn EXCEPT ![s] = Tail(@)]
            /\ b2c' = [b2c EXCEPT ![s] = "write"]
            /\ UNCHANGED << pc, connVars >>
       ELSE /\ TunnelReturn(s)
            /\ UNCHANGED backendIn
    /\ UNCHANGED << variant, req, routed, resp, backend, fwd, dials,
                    peerVars, clientSent, clientIn, hijackBuf, backendRecv,
                    backendSent, clientRecv, c2b, c2bBuf >>

\* io.Copy(clientConn, backendConn), in the handler: Read on the backend socket
B2CRead(s) ==
    /\ pc[s] = "relay"
    /\ b2c[s] = "read"
    /\ IF backendIn[s] # <<>>
       THEN /\ b2cBuf' = [b2cBuf EXCEPT ![s] = <<Head(backendIn[s])>>]
            /\ backendIn' = [backendIn EXCEPT ![s] = Tail(@)]
            /\ b2c' = [b2c EXCEPT ![s] = "write"]
            /\ UNCHANGED << pc, connVars >>
       ELSE \* end of stream; with the backend still open the Read blocks
            /\ backendPeer[s] = "closed"
            /\ TunnelReturn(s)
            /\ UNCHANGED backendIn
    /\ UNCHANGED << variant, req, routed, resp, backend, fwd, dials,
                    peerVars, clientSent, clientIn, hijackBuf, backendRecv,
                    backendSent, clientRecv, c2b, c2bBuf >>

\* ... and its Write on the client socket
B2CWrite(s) ==
    /\ pc[s] = "relay"
    /\ b2c[s] = "write"
    /\ IF clientPeer[s] = "open"
       THEN /\ clientRecv' = [clientRecv EXCEPT ![s] = @ \o b2cBuf[s]]
            /\ b2c' = [b2c EXCEPT ![s] = "read"]
            /\ b2cBuf' = [b2cBuf EXCEPT ![s] = <<>>]
            /\ UNCHANGED << pc, connVars >>
       ELSE \* the client is gone: the kernel takes the bytes, or the
            \* write fails and the handler returns
            /\ \/ /\ b2c' = [b2c EXCEPT ![s] = "read"]
                  /\ b2cBuf' = [b2cBuf EXCEPT ![s] = <<>>]
                  /\ UNCHANGED << pc, connVars >>
               \/ TunnelReturn(s)
            /\ UNCHANGED clientRecv
    /\ UNCHANGED << variant, req, routed, resp, backend, fwd, dials,
                    peerVars, clientSent, clientIn, hijackBuf, backendRecv,
                    backendSent, backendIn, c2b, c2bBuf >>

(* ------------------------------------------------------------------ *)
(* the peers                                                           *)
(* ------------------------------------------------------------------ *)

InTunnel(s) == pc[s] \in {"dial", "hijack", "replay", "relay"}

\* the client sends one more byte after its request
ClientSend(s) ==
    /\ InTunnel(s)
    /\ clientPeer[s] = "open"
    /\ Len(clientSent[s]) < MaxBytes
    /\ LET b == ClientByte(Len(clientSent[s]) + 1)
       IN  /\ clientSent' = [clientSent EXCEPT ![s] = Append(@, b)]
           /\ clientIn' = [clientIn EXCEPT ![s] = Append(@, b)]
    /\ UNCHANGED << variant, pc, req, routed, resp, backend, fwd, dials,
                    connVars, peerVars, hijackBuf, backendRecv, backendSent,
                    backendIn, clientRecv, copyVars >>

\* the client closes its socket
ClientClose(s) ==
    /\ InTunnel(s)
    /\ clientPeer[s] = "open"
    /\ clientPeer' = [clientPeer EXCEPT ![s] = "closed"]
    /\ UNCHANGED << variant, pc, req, routed, resp, backend, fwd, dials,
                    connVars, backendPeer, streamVars, copyVars >>

\* the backend sends one more byte on the tunnel connection
BackendSend(s) ==
    /\ InTunnel(s)
    /\ backendPeer[s] = "open"
    /\ Len(backendSent[s]) < MaxBytes
    /\ LET b == BackendByte(Len(backendSent[s]) + 1)
       IN  /\ backendSent' = [backendSent EXCEPT ![s] = Append(@, b)]
           /\ backendIn' = [backendIn EXCEPT ![s] = Append(@, b)]
    /\ UNCHANGED << variant, pc, req, routed, resp, backend, fwd, dials,
                    connVars, peerVars, clientSent, clientIn, hijackBuf,
                    backendRecv, clientRecv, copyVars >>

\* the backend closes the tunnel connection
BackendClose(s) ==
    /\ InTunnel(s)
    /\ backendPeer[s] = "open"
    /\ backendPeer' = [backendPeer EXCEPT ![s] = "closed"]
    /\ UNCHANGED << variant, pc, req, routed, resp, backend, fwd, dials,
                    connVars, clientPeer, streamVars, copyVars >>

(* ------------------------------------------------------------------ *)
(* specifications                                                      *)
(* ------------------------------------------------------------------ *)

\* the steps of the handler goroutine of session s
HandlerStep(s) ==
    \/ Dispatch(s)
    \/ HealthCheck(s)
    \/ ReverseProxy(s)
    \/ RoundTrip(s)
    \/ WsHandler(s)
    \/ Dial(s)
    \/ Hijack(s)
    \/ Replay(s)
    \/ B2CRead(s)
    \/ B2CWrite(s)

\* the steps of the goroutine proxyWebSocket starts
CopyStep(s) ==
    \/ C2BRead(s)
    \/ C2BWrite(s)

Next ==
    \/ \E s \in Sessions : Arrive(s)
    \/ \E s \in Sessions : Dispatch(s)
    \/ \E s \in Sessions : HealthCheck(s)
    \/ \E s \in Sessions : ReverseProxy(s)
    \/ \E s \in Sessions : RoundTrip(s)
    \/ \E s \in Sessions : WsHandler(s)
    \/ \E s \in Sessions : Dial(s)
    \/ \E s \in Sessions : Hijack(s)
    \/ \E s \in Sessions : Replay(s)
    \/ \E s \in Sessions : B2CRead(s)
    \/ \E s \in Sessions : B2CWrite(s)
    \/ \E s \in Sessions : C2BRead(s)
    \/ \E s \in Sessions : C2BWrite(s)
    \/ \E s \in Sessions : ClientSend(s)
    \/ \E s \in Sessions : ClientClose(s)
    \/ \E s \in Sessions : BackendSend(s)
    \/ \E s \in Sessions : BackendClose(s)

Spec == Init /\ [][Next]_vars

\* The relay under fair scheduling: the TCP builds, serving one upgrade
\* request that passes the check or one that does not.
RelayRequests ==
    { [ method |-> "GET", path |-> <<"/", "w", "s", "/", "a">>, query |-> <<>>,
        connection |-> ConnKeepAliveUpgrade, upgrade |-> UpgWebSocketMixed ],
      [ method |-> "GET", path |-> <<"/", "w", "s", "/">>, query |-> <<>>,
        connection |-> ConnUpgrade, upgrade |-> <<>> ] }

ArriveOnTunnelPath(s) ==
    /\ Arrive(s)
    /\ req'[s] \in RelayRequests

FairInit == Init /\ variant \in {"main_tcp", "part_tcp"}

FairNext ==
    \/ \E s \in Sessions : ArriveOnTunnelPath(s)
    \/ \E s \in Sessions : Dispatch(s)
    \/ \E s \in Sessions : WsHandler(s)
    \/ \E s \in Sessions : Dial(s)
    \/ \E s \in Sessions : Hijack(s)
    \/ \E s \in Sessions : Replay(s)
    \/ \E s \in Sessions : B2CRead(s)
    \/ \E s \in Sessions : B2CWrite(s)
    \/ \E s \in Sessions : C2BRead(s)
    \/ \E s \in Sessions : C2BWrite(s)
    \/ \E s \in Sessions : ClientSend(s)
    \/ \E s \in Sessions : ClientClose(s)
    \/ \E s \in Sessions : BackendSend(s)
    \/ \E s \in Sessions : BackendClose(s)

\* the Go scheduler runs every goroutine that can run; the peers owe nothing
Fairness ==
    \A s \in SingleSession : WF_vars(HandlerStep(s)) /\ WF_vars(CopyStep(s))

FairSpec == FairInit /\ [][FairNext]_vars /\ Fairness

(* ------------------------------------------------------------------ *)
(* vocabulary of the properties                                        *)
(* ------------------------------------------------------------------ *)

\* the proxy routes as the specification lists them: prefix -> backend
ProxyPrefixes ==
    { [prefix |-> PrefixStock,    target |-> "localhost:8001"],
      [prefix |-> PrefixServiceB, target |-> "localhost:8002"] }

\* the tunnel paths of a build
TunnelPaths(v) == IF v = "main_cors" THEN {PatWs, PatWs2} ELSE {PatWs}

\* path is the prefix itself or lies below it
Under(path, prefix) == path = prefix \/ HasPrefix(path, Append(prefix, "/"))

\* the path names no proxy prefix, no tunnel path and not the health path
MatchesNoRoute(v, path) ==
    /\ \A p \in ProxyPrefixes : ~Under(path, p.prefix)
    /\ \A t \in TunnelPaths(v) : ~Under(path, t)
    /\ ~(v = "main_cors" /\ path = PatHealth)

\* the path has an empty, "." or ".." segment
NonCanonical(path) ==
    \E i \in 2..Len(Segments(path)) :
        /\ Segments(path)[i] \in { <<>>, <<".">>, <<".", ".">> }
        /\ ~(i = Len(Segments(path)) /\ Segments(path)[i] = <<>>)

\* the header values of the model, sorted by hand into those that pass the
\* upgrade check and those that do not
ConnectionNamingUpgrade == { ConnKeepAliveUpgrade, ConnUpgrade }
UpgradeBeingWebsocket   == { UpgWebSocketMixed, UpgWebsocket }

PassesUpgradeCheck(r) ==
    /\ r.connection \in ConnectionNamingUpgrade
    /\ r.upgrade \in UpgradeBeingWebsocket

\* the mux gave the request to the handler of a tunnel path
OnTunnelPath(s) == routed[s].kind = "ws"

\* the handler went past the upgrade check towards a backend
TunnelEntered(s) ==
    \/ pc[s] \in {"dial", "hijack", "replay", "relay", "roundtrip"}
    \/ dials[s] > 0

\* a backend was asked to connect and no tunnel connection came of it
NoBackendConnection(s) == dials[s] > 0 /\ backendPeer[s] = "none"

\* proxyWebSocket's dial failed
DialFailed(s) ==
    /\ variant # "main_cors"
    /\ OnTunnelPath(s)
    /\ NoBackendConnection(s)

IsPrefixOf(a, b) == Len(a) <= Len(b) /\ SubSeq(b, 1, Len(a)) = a

(* ------------------------------------------------------------------ *)
(* the HTTP proxy and the mux                                          *)
(* ------------------------------------------------------------------ *)

C2_UnmatchedIsNotFound ==
    \A s \in Sessions :
        MatchesNoRoute(variant, req[s].path)
        => /\ pc[s] \in {"idle", "mux", "done"}
           /\ dials[s] = 0
           /\ backend[s] = "none"
           /\ pc[s] = "done" => resp[s] = Own(StatusNotFound)

\* C2, amended: such a request is answered Not Found, or, when its path is
\* not canonical (an empty, "." or ".." segment), with a 301 redirect; in
\* both cases no handler runs for it and no backend is contacted.
C2_UnmatchedIsNotFoundOrRedirect ==
    \A s \in Sessions :
        MatchesNoRoute(variant, req[s].path)
        => /\ pc[s] \in {"idle", "mux", "done"}
           /\ dials[s] = 0
           /\ backend[s] = "none"
           /\ pc[s] = "done" =>
                IF NonCanonical(req[s].path)
                THEN resp[s] = Own(StatusMovedPermanently)
                ELSE resp[s] = Own(StatusNotFound)

\* /unknown was answered 404 by the gateway itself
C2_Witness ==
    \E s \in Sessions :
        /\ req[s].path = <<"/", "u", "n", "k", "n", "o", "w", "n">>
        /\ MatchesNoRoute(variant, req[s].path)
        /\ pc[s] = "done"
        /\ resp[s] = Own(StatusNotFound)
        /\ dials[s] = 0

(* ------------------------------------------------------------------ *)
(* the upgrade check                                                   *)
(* ------------------------------------------------------------------ *)

\* C3: a request on a tunnel path whose headers fail the upgrade check never
\* gets past the handler: in every state no backend was dialled or contacted,
\* no backend socket exists, the client connection is still the server's,
\* and the response, once written, is 400.
C3_NoUpgradeNoBackend ==
    \A s \in Sessions :
        ( OnTunnelPath(s) /\ ~PassesUpgradeCheck(req[s]) )
        => /\ pc[s] \in {"ws", "done"}
           /\ dials[s] = 0
           /\ backend[s] = "none"
           /\ backendConn[s] = "none"
           /\ backendPeer[s] = "none"
           /\ clientConn[s] = "http"
           /\ fwd[s] = NoForward
           /\ pc[s] = "done" => resp[s] = Own(StatusBadRequest)

\* a request on /ws/ with "Connection: upgrade" and no Upgrade header was
\* answered 400
C3_Witness ==
    \E s \in Sessions :
        /\ OnTunnelPath(s)
        /\ req[s].connection = ConnUpgrade
        /\ req[s].upgrade = <<>>
        /\ pc[s] = "done"
        /\ resp[s] = Own(StatusBadRequest)
        /\ dials[s] = 0

\* C4: once the handler of a tunnel path has decided, the request is on its
\* way to a backend exactly when its Connection value names upgrade and its
\* Upgrade value is websocket in some letter case, and it is answered 400
\* exactly when not.
C4_TunnelIffUpgrade ==
    \A s \in Sessions :
        ( OnTunnelPath(s) /\ pc[s] # "ws" )
        => /\ TunnelEntered(s) <=> PassesUpgradeCheck(req[s])
           /\ ( pc[s] = "done" /\ resp[s] = Own(StatusBadRequest) )
                 <=> ~PassesUpgradeCheck(req[s])

\* "Connection: keep-alive, Upgrade" with "Upgrade: WebSocket" is relaying
C4_Witness ==
    \E s \in Sessions :
        /\ OnTunnelPath(s)
        /\ req[s].connection = ConnKeepAliveUpgrade
        /\ req[s].upgrade = UpgWebSocketMixed
        /\ pc[s] = "relay"
        /\ clientConn[s] = "hijacked"

(* ------------------------------------------------------------------ *)
(* the tunnel                                                          *)
(* ------------------------------------------------------------------ *)

\* C5: when proxyWebSocket's dial has failed the handler has returned with
\* 502 on the client connection, which is still the server's (never
\* hijacked); no copy loop was started, nothing was written to a backend and
\* no backend socket exists.
C5_DialFailureLeavesHttp ==
    \A s \in Sessions :
        DialFailed(s)
        => /\ pc[s] = "done"
           /\ resp[s] = Own(StatusBadGateway)
           /\ clientConn[s] = "http"
           /\ backendConn[s] = "none"
           /\ c2b[s] = "none"
           /\ b2c[s] = "none"
           /\ fwd[s] = NoForward
           /\ hijackBuf[s] = <<>>

\* an upgrade request whose dial failed, after the client had already sent
\* a byte behind its request
C5_Witness ==
    \E s \in Sessions :
        /\ DialFailed(s)
        /\ PassesUpgradeCheck(req[s])
        /\ clientSent[s] # <<>>
        /\ pc[s] = "done"
        /\ resp[s] = Own(StatusBadGateway)
        /\ clientConn[s] = "http"

\* C6 as stated: in the relay, once the client has closed its socket, the
\* gateway eventually closes the backend socket.
C6_ClientCloseClosesBackend ==
    \A s \in SingleSession :
        (pc[s] = "relay" /\ clientPeer[s] = "closed")
            ~> (backendConn[s] = "closed")

\* C7: in the relay, once the backend has closed its socket, the gateway
\* eventually closes the client socket, whatever the client does.
C7_BackendCloseClosesClient ==
    \A s \in SingleSession :
        (pc[s] = "relay" /\ backendPeer[s] = "closed")
            ~> (clientConn[s] = "closed")

\* the backend closed during the relay, the client never did, and the handler
\* has returned with both sockets closed
C7_Witness ==
    \E s \in Sessions :
        /\ pc[s] = "done"
        /\ b2c[s] = "done"
        /\ backendPeer[s] = "closed"
        /\ clientPeer[s] = "open"
        /\ clientConn[s] = "closed"
        /\ backendConn[s] = "closed"

\* C8 as stated: in both directions what was delivered is a prefix of what
\* the source sent after the handshake.
C8_DeliveredIsPrefixOfSent ==
    \A s \in Sessions :
        /\ IsPrefixOf(backendRecv[s], clientSent[s])
        /\ IsPrefixOf(clientRecv[s], backendSent[s])

\* C9 as stated: on a tunnel path a request that is not a GET is never
\* tunnelled and is answered 400, whatever its headers.
C9_OnlyGetIsTunnelled ==
    \A s \in Sessions :
        ( OnTunnelPath(s) /\ req[s].method # "GET" )
        => /\ ~TunnelEntered(s)
           /\ pc[s] = "done" => resp[s] = Own(StatusBadRequest)

\* C10: no request or session ever makes a second backend connection
\* attempt, and one whose attempt produced neither a backend response nor a
\* tunnel connection is answered 502 by the gateway.
C10_OneAttemptThen502 ==
    \A s \in Sessions :
        /\ dials[s] <= 1
        /\ ( pc[s] = "done" /\ NoBackendConnection(s) /\ resp[s].by # "backend" )
           => resp[s] = Own(StatusBadGateway)

\* a proxied request whose backend could not be reached: one attempt, 502
C10_Witness ==
    \E s \in Sessions :
        /\ routed[s].kind = "proxy"
        /\ pc[s] = "done"
        /\ dials[s] = 1
        /\ backend[s] = "localhost:8002"
        /\ resp[s] = Own(StatusBadGateway)

(* ------------------------------------------------------------------ *)
(* the tunnel session: its exits and its phases                        *)
(* ------------------------------------------------------------------ *)

\* proxyWebSocket reached the relay: both copies were started
RelayStarted(s) == b2c[s] # "none"

\* the goroutine's copy has not returned
GoroutineRunning(s) == c2b[s] \in {"read", "write"}

\* proxyWebSocket returned because the client socket could not be taken
\* over: the dial had given a connection and the socket is still the
\* server's
HijackFailed(s) ==
    /\ pc[s] = "done"
    /\ backendPeer[s] # "none"
    /\ clientConn[s] = "http"

\* proxyWebSocket returned because r.Write failed: the socket was taken over
\* and nothing was replayed
ReplayFailed(s) ==
    /\ pc[s] = "done"
    /\ clientConn[s] # "http"
    /\ fwd[s] = NoForward

\* C11 as stated: the handler returns from the relay, closing the two
\* sockets, only when both copy loops have terminated.
C11_ClosedOnlyAfterBothLoops ==
    \A s \in Sessions :
        ( RelayStarted(s) /\ pc[s] = "done" )
        => ( b2c[s] = "done" /\ c2b[s] = "done" )

\* C12: on every exit path, once the handler has returned, neither the
\* backend connection nor the hijacked client connection is open.
C12_NoSocketLeftOpen ==
    \A s \in Sessions :
        pc[s] = "done"
        => ( backendConn[s] # "open" /\ clientConn[s] # "hijacked" )

\* the relay ended after the client had gone: both sockets, opened and taken
\* over by the session, are closed
C12_Witness ==
    \E s \in Sessions :
        /\ pc[s] = "done"
        /\ RelayStarted(s)
        /\ clientPeer[s] = "closed"
        /\ backendConn[s] = "closed"
        /\ clientConn[s] = "closed"

\* C13: no copy loop runs and no byte is relayed in either direction before
\* the request has been replayed onto the backend connection; when the
\* replay write fails no copy loop is started and the session is over with
\* its sockets closed.
C13_ReplayBeforeCopy ==
    \A s \in Sessions :
        /\ ( \/ pc[s] = "relay"
             \/ c2b[s] # "none"
             \/ b2c[s] # "none"
             \/ backendRecv[s] # <<>>
             \/ clientRecv[s] # <<>> )
           => fwd[s] # NoForward
        /\ ReplayFailed(s)
           => /\ c2b[s] = "none" /\ b2c[s] = "none"
              /\ backendRecv[s] = <<>> /\ clientRecv[s] = <<>>
              /\ backendConn[s] = "closed" /\ clientConn[s] = "closed"

\* the replay write failed on a backend that had gone, with client bytes
\* waiting: nothing was copied
C13_Witness ==
    \E s \in Sessions :
        /\ ReplayFailed(s)
        /\ backendPeer[s] = "closed"
        /\ clientIn[s] # <<>>
        /\ c2b[s] = "none"

\* C14 as stated: in a relay whose backend is there, every byte the client
\* sent after its request has reached the backend, is held by the copy
\* loop, or still waits on the client socket; none is lost at the hijack.
C14_NoByteDroppedAtHijack ==
    \A s \in Sessions :
        ( pc[s] = "relay" /\ backendConn[s] = "open" /\ backendPeer[s] = "open" )
        => clientSent[s] = backendRecv[s] \o c2bBuf[s] \o clientIn[s]

\* C15: when the client socket cannot be taken over the client is answered
\* 500, nothing has been written to the backend, and the backend connection
\* that was dialed is closed when the handler has returned.
C15_HijackFailureCleansUp ==
    \A s \in Sessions :
        HijackFailed(s)
        => /\ resp[s] = Own(StatusInternalServerError)
           /\ fwd[s] = NoForward
           /\ backendRecv[s] = <<>>
           /\ ~RelayStarted(s)
           /\ backendConn[s] = "closed"

\* a session whose dial succeeded and whose Hijack failed
C15_Witness ==
    \E s \in Sessions :
        /\ HijackFailed(s)
        /\ dials[s] = 1
        /\ resp[s] = Own(StatusInternalServerError)
        /\ backendConn[s] = "closed"

\* the handler's copy has seen the end of the backend's stream, or its write
\* to a client that has gone is about to fail
HandlerCopyObservesEnd(s) ==
    \/ b2c[s] = "read" /\ backendIn[s] = <<>> /\ backendPeer[s] = "closed"
    \/ b2c[s] = "write" /\ clientPeer[s] = "closed"

\* C16: a step that takes a session out of the relay phase, or that changes
\* the state of one of its sockets during the relay, is taken only when a
\* copy loop observes end-of-stream or a failed write caused by a peer; so
\* while both peers are open and the backend is silent no step of the gateway
\* ends the relay.
C16_RelayEndsOnlyOnPeerEvent ==
    [][ \A s \in SingleSession :
          ( /\ pc[s] = "relay"
            /\ \/ pc'[s] # "relay"
               \/ backendConn'[s] # backendConn[s]
               \/ clientConn'[s] # clientConn[s] )
          => HandlerCopyObservesEnd(s) ]_vars

\* an idle relay after traffic: both peers open, both copies blocked in Read,
\* the sockets open
C16_Witness ==
    \E s \in Sessions :
        /\ pc[s] = "relay"
        /\ clientPeer[s] = "open" /\ backendPeer[s] = "open"
        /\ b2c[s] = "read" /\ backendIn[s] = <<>>
        /\ c2b[s] = "read" /\ clientIn[s] = <<>>
        /\ clientRecv[s] # <<>>
        /\ backendConn[s] = "open" /\ clientConn[s] = "hijacked"

(* ------------------------------------------------------------------ *)
(* the two WebSocket backends of the CORS build                        *)
(* ------------------------------------------------------------------ *)

\* C18: in the build with two WebSocket backends an upgrade request the mux
\* hands to a handler goes to localhost:9999 when its path is /ws or lies
\* under /ws/, and to localhost:9998 when its path is /ws2 or lies under
\* /ws2/; the path sent to the backend is /ws in both cases.
C18_WsRoutesDoNotCross ==
    \A s \in Sessions :
        ( /\ variant = "main_cors"
          /\ PassesUpgradeCheck(req[s])
          /\ routed[s].kind # "redirect"
          /\ pc[s] \in {"roundtrip", "done"} )
        => /\ Under(req[s].path, PatWs)
              => /\ dials[s] = 1
                 /\ backend[s] = "localhost:9999"
                 /\ fwd[s].path = PatWs
           /\ Under(req[s].path, PatWs2)
              => /\ dials[s] = 1
                 /\ backend[s] = "localhost:9998"
                 /\ fwd[s].path = PatWs

\* an upgrade request below /ws2/ was answered by the backend on 9998, which
\* saw the path /ws
C18_Witness ==
    \E s \in Sessions :
        /\ variant = "main_cors"
        /\ PassesUpgradeCheck(req[s])
        /\ HasPrefix(req[s].path, PatWs2Slash)
        /\ req[s].path # PatWs2Slash
        /\ pc[s] = "done"
        /\ resp[s].by = "backend"
        /\ backend[s] = "localhost:9998"
        /\ fwd[s].path = PatWs

(* ------------------------------------------------------------------ *)
(* the life of the copy goroutine                                      *)
(* ------------------------------------------------------------------ *)

\* C19: before the relay phase, and on every return before it, the copy
\* goroutine does not exist; and a goroutine still copying when the handler
\* has returned terminates, whatever the client did.
C19_GoroutineEndsAfterReturn ==
    \A s \in SingleSession :
        /\ []( ( \/ pc[s] \in {"idle", "mux", "ws", "dial", "hijack", "replay"}
                 \/ pc[s] = "done" /\ ~RelayStarted(s) )
               => c2b[s] = "none" )
        /\ ( pc[s] = "done" /\ GoroutineRunning(s) ) ~> ( c2b[s] = "done" )

\* the handler returned while the client was open, and the goroutine, which
\* no end-of-stream could have stopped, has terminated
C19_Witness ==
    \E s \in Sessions :
        /\ pc[s] = "done"
        /\ RelayStarted(s)
        /\ clientPeer[s] = "open"
        /\ clientConn[s] = "closed"
        /\ c2b[s] = "done"

(* ------------------------------------------------------------------ *)
(* two sessions at once                                                *)
(* ------------------------------------------------------------------ *)

\* the server runs every connection's handler in a goroutine of its own:
\* two connections are served at the same time
TwoSessions == {1, 2}

\* what the two clients ask for: a tunnel, a request the upgrade check turns
\* down, a proxied request
ConcurrentRequests ==
    RelayRequests \cup
    { [ method |-> "GET", path |-> <<"/", "s", "t", "o", "c", "k", "/", "a", "/", "b">>,
        query |-> <<>>, connection |-> <<>>, upgrade |-> <<>> ] }

ArriveConcurrently(s) ==
    /\ Arrive(s)
    /\ req'[s] \in ConcurrentRequests

\* each peer sends at most its first byte
ClientSendsFirst(s) ==
    /\ ClientSend(s)
    /\ clientSent[s] = <<>>

BackendSendsFirst(s) ==
    /\ BackendSend(s)
    /\ backendSent[s] = <<>>

ConcurrentInit == InitOver(TwoSessions) /\ variant = "main_tcp"

ConcurrentNext ==
    \/ \E s \in Sessions : ArriveConcurrently(s)
    \/ \E s \in Sessions : Dispatch(s)
    \/ \E s \in Sessions : ReverseProxy(s)
    \/ \E s \in Sessions : RoundTrip(s)
    \/ \E s \in Sessions : WsHandler(s)
    \/ \E s \in Sessions : Dial(s)
    \/ \E s \in Sessions : Hijack(s)
    \/ \E s \in Sessions : Replay(s)
    \/ \E s \in Sessions : B2CRead(s)
    \/ \E s \in Sessions : B2CWrite(s)
    \/ \E s \in Sessions : C2BRead(s)
    \/ \E s \in Sessions : C2BWrite(s)
    \/ \E s \in Sessions : ClientSendsFirst(s)
    \/ \E s \in Sessions : ClientClose(s)
    \/ \E s \in Sessions : BackendSendsFirst(s)
    \/ \E s \in Sessions : BackendClose(s)

ConcurrentSpec == ConcurrentInit /\ [][ConcurrentNext]_vars

\* all the state a session has
SessionState(s) ==
    << pc[s], req[s], routed[s], resp[s], backend[s], fwd[s], dials[s],
       backendConn[s], clientConn[s], clientPeer[s], backendPeer[s],
       clientSent[s], clientIn[s], hijackBuf[s], backendRecv[s],
       backendSent[s], backendIn[s], clientRecv[s], c2b[s], c2bBuf[s],
       b2c[s], b2cBuf[s] >>

\* the handler goroutine of the session has something to do that does not
\* wait for the session's own peers: it is on its way to the relay or to its
\* return, or it is in a relay whose backend has closed
HandlerCanRun(s) ==
    \/ pc[s] \in {"mux", "proxy", "ws", "roundtrip", "dial", "hijack", "replay"}
    \/ pc[s] = "relay" /\ backendPeer[s] = "closed"

\* C17: no step of one session changes anything of another session, its
\* response and its relayed bytes included; and whatever state the other
\* session is in, hung in its relay or failed, a handler that has something
\* to do can take its next step towards its return.
C17_SessionsIndependent ==
    /\ [][ \E s \in TwoSessions :
             \A t \in TwoSessions \ {s} : SessionState(t)' = SessionState(t) ]_vars
    /\ []( \A t \in TwoSessions : HandlerCanRun(t) => ENABLED HandlerStep(t) )

\* one session hangs in its relay on a silent backend while the other has
\* relayed a byte and ended, and nothing of the hung one has changed hands
C17_Witness ==
    \E s \in TwoSessions : \E t \in TwoSessions \ {s} :
        /\ pc[s] = "relay"
        /\ backendPeer[s] = "open" /\ clientPeer[s] = "open"
        /\ backendSent[s] = <<>> /\ clientRecv[s] = <<>>
        /\ pc[t] = "done"
        /\ RelayStarted(t)
        /\ clientRecv[t] = backendSent[t] /\ clientRecv[t] # <<>>

====
